---------------------------- MODULE Spec2Model ----------------------------
(* A model of go-sawyer's request layer (client/request.go): building a    *)
(* Request from a Client, attaching an encoded body, and executing one of  *)
(* the seven verbs.  The media-type codec, the URL resolution of the       *)
(* Client and the Response classification are collaborators of request.go  *)
(* and are modelled from their specification.                              *)
EXTENDS Integers, Sequences, FiniteSets, TLC

\* A nil pointer or interface, a nil error, an absent header or body.
Nil == "nil"
NilRec == [nil |-> TRUE]
NoError == <<>>
Absent == <<>>

(* ---------------------------------------------------------------- bounds *)
\* Longest value (a login, a message) that is encoded or decoded.
MaxLen == 1
\* Most key=value pairs in the query string of a raw URL.
MaxPairs == 1

Chars == {"s"}
Keys == {"a", "b"}
Vals == {"1", "2"}

SeqsUpTo(S, n) == UNION {[1..k -> S] : k \in 0..n}

\* The values a caller holds in a decode target or hands to SetBody.
Values == SeqsUpTo(Chars, MaxLen)
\* A value no codec can serialise (a Go channel or func).
Unencodable == <<"chan">>
Inputs == Values \cup {Unencodable}

(* ------------------------------------------------------------ constants *)
HeadMethod == "HEAD"
GetMethod == "GET"
PostMethod == "POST"
PutMethod == "PUT"
PatchMethod == "PATCH"
DeleteMethod == "DELETE"
OptionsMethod == "OPTIONS"

(* ------------------------------------------------------------ media type *)
\* A parsed media type: type/subtype[+suffix].
MediaTypes ==
    { [type |-> "application", subtype |-> "json", suffix |-> ""],
      [type |-> "application", subtype |-> "vnd.foo", suffix |-> "json"],
      [type |-> "application", subtype |-> "booya", suffix |-> "booya"] }

\* MediaType.String(): the canonical rendering, a sequence of tokens.
String(m) ==
    IF m.suffix = ""
    THEN <<m.type, "/", m.subtype>>
    ELSE <<m.type, "/", m.subtype, "+", m.suffix>>

\* mediatype.Parse: the structured form of a rendered header.
Parse(h) ==
    IF Len(h) = 3 /\ h[2] = "/"
    THEN [type |-> h[1], subtype |-> h[3], suffix |-> ""]
    ELSE IF Len(h) = 5 /\ h[2] = "/" /\ h[4] = "+"
    THEN [type |-> h[1], subtype |-> h[3], suffix |-> h[5]]
    ELSE NilRec

\* The format token: the suffix after "+", or the bare subtype.
Format(m) == IF m.suffix = "" THEN m.subtype ELSE m.suffix

\* The process-wide codec registry after start-up: JSON only.
Registered == {"json"}

NoEncoder == "No encoder found for format "
NoDecoder == "No decoder found for format "
EncodeError == <<"json: unsupported type">>
DecodeError == <<"json: unexpected end of input">>

\* The JSON codec: a value is framed by braces.
EncodeJSON(v) == <<"{">> \o v \o <<"}">>

WellFormed(b) ==
    /\ Len(b) >= 2
    /\ b[1] = "{"
    /\ b[Len(b)] = "}"
    /\ \A i \in 2..(Len(b) - 1) : b[i] \in Chars

DecodeJSON(b) ==
    IF WellFormed(b)
    THEN [value |-> SubSeq(b, 2, Len(b) - 1), err |-> NoError]
    ELSE [value |-> <<>>, err |-> DecodeError]

\* MediaType.Encode(value) -> (buffer, error)
Encode(m, v) ==
    IF Format(m) \notin Registered
    THEN [buf |-> <<>>, err |-> <<NoEncoder, Format(m)>>]
    ELSE IF v = Unencodable
    THEN [buf |-> <<>>, err |-> EncodeError]
    ELSE [buf |-> EncodeJSON(v), err |-> NoError]

(* ------------------------------------------------------------------ URLs *)
Pairs == Keys \X Vals
QueryStrings == SeqsUpTo(Pairs, MaxPairs)

\* url.ParseQuery: the values of key k, in the order they appear.
RECURSIVE QueryValues(_, _)
QueryValues(qs, k) ==
    IF qs = <<>> THEN <<>>
    ELSE IF Head(qs)[1] = k
    THEN <<Head(qs)[2]>> \o QueryValues(Tail(qs), k)
    ELSE QueryValues(Tail(qs), k)

ParseQuery(qs) == [k \in Keys |-> QueryValues(qs, k)]

\* url.Values.Get: the first value of the key, "" when it has none.
QueryGet(q, k) == IF q[k] = <<>> THEN "" ELSE q[k][1]

\* url.Values.Set: the key's values replaced by the one value.
ValuesSet(q, k, v) == [q EXCEPT ![k] = <<v>>]

\* A raw URL handed to NewRequest: a reference with a query string, a string
\* url.Parse rejects ("malformed"), or a reference that resolves to a string
\* http.NewRequest rejects ("unrequestable").
MalformedUrl == [kind |-> "malformed", path |-> "%zz", query |-> <<>>]
UnrequestableUrl == [kind |-> "unrequestable", path |-> "a:b", query |-> <<>>]
PlainUrl == [kind |-> "ref", path |-> "user", query |-> <<>>]
RefUrls == [kind : {"ref"}, path : {"user"}, query : QueryStrings]

ParseError == <<"parse error">>

\* Client.resolveReferenceString: the reference resolved against the
\* endpoint, its query merged over the client's default query.
resolveReferenceString(cq, rawurl) ==
    IF rawurl.kind = "malformed"
    THEN [u |-> NilRec, err |-> ParseError]
    ELSE [u |-> [kind |-> rawurl.kind,
                 path |-> rawurl.path,
                 query |-> [k \in Keys |->
                              IF ParseQuery(rawurl.query)[k] # <<>>
                              THEN ParseQuery(rawurl.query)[k]
                              ELSE cq[k]]],
          err |-> NoError]

\* net/http's NewRequest(method, url, nil).
HttpNewRequest(method, u) ==
    IF u.kind = "unrequestable"
    THEN [httpreq |-> NilRec, err |-> ParseError]
    ELSE [httpreq |-> [Method |-> method,
                       URL |-> [path |-> u.path, query |-> u.query],
                       ContentType |-> Absent,
                       Body |-> Absent,
                       ContentLength |-> 0],
          err |-> NoError]

(* ----------------------------------------------------------------- state *)
VARIABLES
    cQuery,   \* Client.Query: the client's default query parameters
    req,      \* the *Request NewRequest returned (NilRec: a nil pointer)
    phase,    \* "idle", "built" (a usable Request), "failed", "done"
    mem,      \* the caller's decode targets: mem.user, mem.apierr
    srv,      \* the server's reply in the last exchange
    wire,     \* what the server received in the last exchange
    res,      \* the *Response of the last verb call
    op,       \* the last operation called
    call,     \* its arguments
    err,      \* the error it returned
    pre,      \* the request and targets as they were before it
    hist      \* the arguments of NewRequest, the client's defaults at that
              \* time, the last request-level Set of each key, and whether
              \* it replaced the other value of an earlier Set

vars == <<cQuery, req, phase, mem, srv, wire, res, op, call, err, pre, hist>>

Targets == {"user", "apierr"}
\* What a target may hold before the exchange: zero, or an earlier result.
InitialValues == {<<>>, <<"s">>}

Init ==
    /\ cQuery = [k \in Keys |-> <<"1">>]
    /\ req = NilRec
    /\ phase = "idle"
    /\ mem \in [Targets -> InitialValues]
    /\ srv = NilRec
    /\ wire = NilRec
    /\ res = NilRec
    /\ op = "new"
    /\ call = NilRec
    /\ err = NoError
    /\ pre = NilRec
    /\ hist = NilRec

(* ------------------------------------------------------------ NewRequest *)
\* NewRequest as it would be if it stored no error target.
NewRequestDropsApiError(cq, rawurl, apierr) ==
    LET r == resolveReferenceString(cq, rawurl) IN
    IF r.err # NoError
    THEN [req |-> NilRec, err |-> r.err]
    ELSE LET h == HttpNewRequest(GetMethod, r.u) IN
         [req |-> [Client |-> "HttpClient",
                   ApiError |-> Nil,
                   httpreq |-> h.httpreq],
          err |-> h.err]

\* NewRequest as it would be if it built the request from the raw URL and
\* not from the URL resolved against the client.
NewRequestSkipsResolved(cq, rawurl, apierr) ==
    LET r == resolveReferenceString(cq, rawurl) IN
    IF r.err # NoError
    THEN [req |-> NilRec, err |-> r.err]
    ELSE LET h == HttpNewRequest(GetMethod,
                                 [r.u EXCEPT !.query = ParseQuery(rawurl.query)])
         IN [req |-> [Client |-> "HttpClient",
                      ApiError |-> apierr,
                      httpreq |-> h.httpreq],
             err |-> h.err]

\* Client.NewRequest(rawurl, apierr) -> (*Request, error)
NewRequestResult(cq, rawurl, apierr) ==
    LET r == resolveReferenceString(cq, rawurl) IN
    IF r.err # NoError
    THEN [req |-> NilRec, err |-> r.err]
    ELSE LET h == HttpNewRequest(GetMethod, r.u) IN
         [req |-> [Client |-> "HttpClient",
                   ApiError |-> apierr,
                   httpreq |-> h.httpreq],
          err |-> h.err]

NewRequest(rawurl, apierr) ==
    /\ phase = "idle"
    /\ LET out == NewRequestResult(cQuery, rawurl, apierr) IN
       /\ req' = out.req
       /\ err' = out.err
       /\ phase' = IF out.err = NoError THEN "built" ELSE "failed"
    /\ op' = "NewRequest"
    /\ call' = [rawurl |-> rawurl, apierr |-> apierr]
    /\ pre' = NilRec
    /\ hist' = [cQuery |-> cQuery, rawurl |-> rawurl, apierr |-> apierr,
                sets |-> [k \in Keys |-> ""],
                again |-> [k \in Keys |-> FALSE]]
    /\ UNCHANGED <<cQuery, mem, srv, wire, res>>

(* --------------------------------------------------------------- SetBody *)
\* SetBody as it would be if it took the length of the input, not of the
\* encoded buffer.
SetBodyLengthOfInput(r, mtype, input) ==
    LET e == Encode(mtype, input) IN
    IF e.err # NoError
    THEN [req |-> r, err |-> e.err]
    ELSE [req |-> [r EXCEPT !.httpreq.ContentLength = Len(input),
                            !.httpreq.Body = e.buf],
          err |-> NoError]

\* SetBody as it would be if it installed the buffer before looking at the
\* error.
SetBodyBeforeErrorCheck(r, mtype, input) ==
    LET e == Encode(mtype, input) IN
    [req |-> [r EXCEPT !.httpreq.ContentLength = Len(e.buf),
                       !.httpreq.Body = e.buf],
     err |-> e.err]

\* Request.SetBody(mtype, input) -> error
SetBodyResult(r, mtype, input) ==
    LET e == Encode(mtype, input) IN
    IF e.err # NoError
    THEN [req |-> r, err |-> e.err]
    ELSE [req |-> [r EXCEPT !.httpreq.ContentLength = Len(e.buf),
                            !.httpreq.Body = e.buf],
          err |-> NoError]

SetBody(mtype, input) ==
    /\ phase = "built"
    /\ LET out == SetBodyResult(req, mtype, input) IN
       /\ req' = out.req
       /\ err' = out.err
    /\ op' = "SetBody"
    /\ call' = [mtype |-> mtype, input |-> input]
    /\ pre' = [req |-> req, mem |-> mem]
    /\ UNCHANGED <<cQuery, phase, mem, srv, wire, res, hist>>

(* ------------------------------------------------- header and query sets *)
\* req.Header.Set("Content-Type", h) on the embedded http.Request.
HeaderSet(h) ==
    /\ phase = "built"
    /\ req' = [req EXCEPT !.httpreq.ContentType = h]
    /\ op' = "Header.Set"
    /\ call' = [header |-> h]
    /\ err' = NoError
    /\ pre' = NilRec
    /\ UNCHANGED <<cQuery, phase, mem, srv, wire, res, hist>>

\* req.Query.Set(k, v): replaces the values of k in the request's query.
QuerySet(k, v) ==
    /\ phase = "built"
    /\ req' = [req EXCEPT
                 !.httpreq.URL.query = ValuesSet(req.httpreq.URL.query, k, v)]
    /\ hist' = [hist EXCEPT !.sets[k] = v,
                            !.again[k] = @ \/ hist.sets[k] \notin {"", v}]
    /\ op' = "Query.Set"
    /\ call' = [key |-> k, value |-> v]
    /\ err' = NoError
    /\ pre' = NilRec
    /\ UNCHANGED <<cQuery, phase, mem, srv, wire, res>>

\* client.Query.Set(k, v): replaces a default of the client.
ClientQuerySet(k, v) ==
    /\ phase \in {"idle", "built"}
    /\ cQuery' = ValuesSet(cQuery, k, v)
    /\ op' = "Client.Query.Set"
    /\ call' = [key |-> k, value |-> v]
    /\ err' = NoError
    /\ pre' = NilRec
    /\ UNCHANGED <<req, phase, mem, srv, wire, res, hist>>

(* ------------------------------------------------------------- responses *)
\* The status from which a response is an API error.
ErrorStatus == 400
Statuses == {200, 399, 400, 404}

\* Bodies a server sends: an encoded value, or one cut short.
Truncated(b) == SubSeq(b, 1, Len(b) - 1)
ReplyBodies ==
    {EncodeJSON(v) : v \in Values} \cup {Truncated(EncodeJSON(v)) : v \in Values}

\* Replies of an API server: any status, any content type or none, any body.
ApiReplies ==
    [status : Statuses,
     ctype : {String(m) : m \in MediaTypes} \cup {Absent},
     body : ReplyBodies]

\* The reply of the handler of TestResolveRequestQuery: status 123 and the
\* body "ok", which net/http labels text/plain.
PlainReplies ==
    {[status |-> 123, ctype |-> <<"text", "/", "plain">>, body |-> <<"o", "k">>]}

\* Request.Do: sends the request with the verb's method, wraps the reply,
\* and decodes its body into the target the status selects.
DoResult(r, m, method, output, reply) ==
    LET sent == [r.httpreq EXCEPT !.Method = method]
        isApiError == reply.status >= ErrorStatus
        target == IF isApiError THEN r.ApiError ELSE output
        received == [StatusCode |-> reply.status,
                     ContentType |-> reply.ctype,
                     Body |-> reply.body,
                     BodyClosed |-> FALSE,
                     ResponseError |-> NoError]
    IN  IF reply.ctype = Absent \/ Parse(reply.ctype) = NilRec \/ target = Nil
        THEN [wire |-> sent, res |-> received, mem |-> m]
        ELSE IF Format(Parse(reply.ctype)) \notin Registered
        THEN [wire |-> sent,
              res |-> [received EXCEPT
                         !.BodyClosed = TRUE,
                         !.ResponseError =
                             <<NoDecoder, Format(Parse(reply.ctype))>>],
              mem |-> m]
        ELSE LET d == DecodeJSON(reply.body) IN
             [wire |-> sent,
              res |-> [received EXCEPT !.BodyClosed = TRUE,
                                       !.Body = <<>>,
                                       !.ResponseError = d.err],
              mem |-> IF d.err = NoError
                      THEN [m EXCEPT ![target] = d.value]
                      ELSE m]

Do(method, output, replies) ==
    /\ phase = "built"
    /\ \E reply \in replies :
         LET out == DoResult(req, mem, method, output, reply) IN
         /\ srv' = reply
         /\ wire' = out.wire
         /\ res' = out.res
         /\ mem' = out.mem
    /\ req' = [req EXCEPT !.httpreq.Method = method]
    /\ phase' = "done"
    /\ err' = NoError
    /\ pre' = [req |-> req, mem |-> mem]
    /\ UNCHANGED <<cQuery, hist>>

\* Response.IsError() and Response.Error()
IsError(r) == r.ResponseError # NoError
Error(r) == r.ResponseError

(* ----------------------------------------------------------------- verbs *)
\* Verbs as they would be if they handed Do no output.
RequestHeadDropsOutput(output, replies) ==
    /\ Do(HeadMethod, Nil, replies)
    /\ op' = "Head"
    /\ call' = [output |-> output]

RequestGetDropsOutput(output, replies) ==
    /\ Do(GetMethod, Nil, replies)
    /\ op' = "Get"
    /\ call' = [output |-> output]

RequestPostDropsOutput(output, replies) ==
    /\ Do(PostMethod, Nil, replies)
    /\ op' = "Post"
    /\ call' = [output |-> output]

RequestHead(output, replies) ==
    /\ Do(HeadMethod, output, replies)
    /\ op' = "Head"
    /\ call' = [output |-> output]

RequestGet(output, replies) ==
    /\ Do(GetMethod, output, replies)
    /\ op' = "Get"
    /\ call' = [output |-> output]

RequestPost(output, replies) ==
    /\ Do(PostMethod, output, replies)
    /\ op' = "Post"
    /\ call' = [output |-> output]

RequestPut(output, replies) ==
    /\ Do(PutMethod, output, replies)
    /\ op' = "Put"
    /\ call' = [output |-> output]

RequestPatch(output, replies) ==
    /\ Do(PatchMethod, output, replies)
    /\ op' = "Patch"
    /\ call' = [output |-> output]

RequestDelete(output, replies) ==
    /\ Do(DeleteMethod, output, replies)
    /\ op' = "Delete"
    /\ call' = [output |-> output]

RequestOptions(output, replies) ==
    /\ Do(OptionsMethod, output, replies)
    /\ op' = "Options"
    /\ call' = [output |-> output]

Verbs == {"Head", "Get", "Post", "Put", "Patch", "Delete", "Options"}

\* The caller reads the body the verb left open with a decoder of its own:
\* json.NewDecoder(res.Body).Decode(user).
ReadBody ==
    /\ phase = "done"
    /\ ~res.BodyClosed
    /\ res.Body # <<>>
    /\ LET d == DecodeJSON(res.Body) IN
       /\ mem' = IF d.err = NoError THEN [mem EXCEPT !["user"] = d.value] ELSE mem
       /\ err' = d.err
    /\ res' = [res EXCEPT !.Body = <<>>]
    /\ op' = "ReadBody"
    /\ call' = NilRec
    /\ pre' = [req |-> req, mem |-> mem]
    /\ UNCHANGED <<cQuery, req, phase, srv, wire, hist>>

(* --------------------------------------------------------- specifications *)
Outputs == {Nil, "user"}
ApiErrors == {Nil, "apierr"}

\* Bodies and responses: every media type, value, status and reply, over a
\* URL without a query of its own.
Next ==
    \/ \E rawurl \in {PlainUrl, MalformedUrl, UnrequestableUrl},
          apierr \in ApiErrors : NewRequest(rawurl, apierr)
    \/ \E mtype \in MediaTypes, input \in Inputs : SetBody(mtype, input)
    \/ \E mtype \in MediaTypes : HeaderSet(String(mtype))
    \/ \E output \in Outputs : RequestHead(output, ApiReplies)
    \/ \E output \in Outputs : RequestGet(output, ApiReplies)
    \/ \E output \in Outputs : RequestPost(output, ApiReplies)
    \/ \E output \in Outputs : RequestPut(output, ApiReplies)
    \/ \E output \in Outputs : RequestPatch(output, ApiReplies)
    \/ \E output \in Outputs : RequestDelete(output, ApiReplies)
    \/ \E output \in Outputs : RequestOptions(output, ApiReplies)
    \/ ReadBody

Spec == Init /\ [][Next]_vars

\* Queries: every client default, URL query string and Set, with the reply
\* of a plain handler.
NextQuery ==
    \/ \E k \in Keys, v \in Vals : ClientQuerySet(k, v)
    \/ \E rawurl \in RefUrls : NewRequest(rawurl, Nil)
    \/ \E k \in Keys, v \in Vals : QuerySet(k, v)
    \/ RequestHead(Nil, PlainReplies)
    \/ RequestGet(Nil, PlainReplies)
    \/ RequestPost(Nil, PlainReplies)
    \/ RequestPut(Nil, PlainReplies)
    \/ RequestPatch(Nil, PlainReplies)
    \/ RequestDelete(Nil, PlainReplies)
    \/ RequestOptions(Nil, PlainReplies)

SpecQuery == Init /\ [][NextQuery]_vars

(* ---------------------------------------------------------------- claims *)
\* The state right after a verb returned.
AfterVerb == op \in Verbs
\* The format token of the reply's Content-Type (when it has one).
ReplyFormat == Format(Parse(srv.ctype))
HasCodec == srv.ctype # Absent /\ ReplyFormat \in Registered
LacksCodec == srv.ctype # Absent /\ ReplyFormat \notin Registered
\* The target the caller supplied for the path the status selects: the output
\* handed to the verb, or the error target handed to NewRequest.
ActiveTarget == IF srv.status >= ErrorStatus THEN hist.apierr ELSE call.output
SetBodySucceeded == op = "SetBody" /\ err = NoError
SetBodyFailed == op = "SetBody" /\ err # NoError

\* C1: after every successful SetBody(mediaType, value) the request's
\* Content-Type header equals mediaType.String().
C1_ContentTypeIsMediaType ==
    SetBodySucceeded => req.httpreq.ContentType = String(call.mtype)

\* C2: after every successful SetBody the body is exactly the bytes of
\* mediaType.Encode(value) and ContentLength is their number, also when the
\* call replaces the body of an earlier SetBody.
C2_BodyIsEncoding ==
    SetBodySucceeded =>
        /\ req.httpreq.Body = EncodeJSON(call.input)
        /\ req.httpreq.ContentLength = Len(EncodeJSON(call.input))

\* A successful SetBody that replaced the different body of an earlier one.
C2_Witness ==
    /\ SetBodySucceeded
    /\ pre.req.httpreq.Body # Absent
    /\ pre.req.httpreq.Body # req.httpreq.Body
    /\ pre.req.httpreq.ContentLength # req.httpreq.ContentLength

\* C3: when Encode fails, SetBody returns that error and leaves the request
\* as it was: body, content length and headers, whatever they were.
C3_FailedSetBodyChangesNothing ==
    SetBodyFailed =>
        /\ req = pre.req
        /\ err = Encode(call.mtype, call.input).err

\* A failed SetBody on a request that held a body and a Content-Type.
C3_Witness ==
    /\ SetBodyFailed
    /\ req.httpreq.Body # Absent
    /\ req.httpreq.ContentLength > 0
    /\ req.httpreq.ContentType # Absent

\* C4 as stated: every response whose Content-Type has no registered codec
\* has IsError() true and an Error() that begins with "No decoder found for
\* format " and the format token, whatever the status.
C4_NoDecoderIsAlwaysError ==
    AfterVerb /\ LacksCodec =>
        /\ IsError(res)
        /\ Len(Error(res)) >= 2
        /\ Error(res)[1] = NoDecoder
        /\ Error(res)[2] = ReplyFormat

\* C4 as amended: it is so when a target was supplied for the active path
\* (also for a status below 400); with no target, no decode is attempted and
\* IsError() is false.
C4_NoDecoderIsErrorWithTarget ==
    AfterVerb /\ LacksCodec =>
        IF ActiveTarget # Nil
        THEN /\ IsError(res)
             /\ Len(Error(res)) >= 2
             /\ Error(res)[1] = NoDecoder
             /\ Error(res)[2] = ReplyFormat
        ELSE ~IsError(res)

\* A 200 reply of application/booya+booya to a verb called with a target.
C4_Witness ==
    /\ AfterVerb
    /\ srv.status = 200
    /\ srv.ctype = <<"application", "/", "booya", "+", "booya">>
    /\ call.output = "user"
    /\ Error(res) = <<NoDecoder, "booya">>

\* C5 as stated: a response below 400 with a registered codec, to a verb
\* called with a success target, has IsError() false, the target populated
\* from the body and the error target unmodified.
C5_SuccessDecodes ==
    AfterVerb /\ srv.status < ErrorStatus /\ HasCodec /\ call.output # Nil =>
        /\ ~IsError(res)
        /\ EncodeJSON(mem[call.output]) = srv.body
        /\ mem["apierr"] = pre.mem["apierr"]

\* C5 as amended: it is so when the codec decodes the body; a body it cannot
\* decode makes IsError() true, and the error target is unmodified either way.
C5_SuccessDecodesWellFormed ==
    AfterVerb /\ srv.status < ErrorStatus /\ HasCodec /\ call.output # Nil =>
        /\ mem["apierr"] = pre.mem["apierr"]
        /\ IF WellFormed(srv.body)
           THEN ~IsError(res) /\ EncodeJSON(mem[call.output]) = srv.body
           ELSE IsError(res)

\* A 2xx JSON reply decoded into a target that held another value.
C5_Witness ==
    /\ AfterVerb
    /\ srv.status = 200
    /\ HasCodec
    /\ call.output = "user"
    /\ ~IsError(res)
    /\ mem["user"] # pre.mem["user"]
    /\ mem["user"] # mem["apierr"]

\* C6 as stated: every response with status 400 or above has IsError() true.
C6_ErrorStatusIsError ==
    AfterVerb /\ srv.status >= ErrorStatus => IsError(res)

\* C6 as amended: a response with status 400 or above has IsError() true
\* exactly when decoding into the request's error target failed: a target
\* was supplied, and the content type has no registered codec or the codec
\* could not decode the body.
C6_ErrorStatusIsErrorIffDecodeFailed ==
    AfterVerb /\ srv.status >= ErrorStatus =>
        (IsError(res) <=>
            /\ hist.apierr # Nil
            /\ srv.ctype # Absent
            /\ (ReplyFormat \notin Registered \/ ~WellFormed(srv.body)))

\* A 4xx reply that failed to decode into the error target.
C6_Witness ==
    /\ AfterVerb
    /\ srv.status = 400
    /\ hist.apierr = "apierr"
    /\ HasCodec
    /\ IsError(res)

\* C7: a response of 400 or above with a registered codec, on a request with
\* an error target: the success target keeps its value, StatusCode reports
\* the status, and a body that decodes lands in the error target with
\* IsError() false.
C7_ErrorDecodesIntoApiError ==
    AfterVerb /\ srv.status >= ErrorStatus /\ HasCodec /\ hist.apierr # Nil =>
        /\ mem["user"] = pre.mem["user"]
        /\ res.StatusCode = srv.status
        /\ WellFormed(srv.body) =>
              /\ EncodeJSON(mem[hist.apierr]) = srv.body
              /\ ~IsError(res)

\* A 404 JSON reply to a verb called with a success target, decoded into an
\* error target that held another value than either target did.
C7_Witness ==
    /\ AfterVerb
    /\ srv.status = 404
    /\ HasCodec
    /\ call.output = "user"
    /\ ~IsError(res)
    /\ mem["apierr"] # pre.mem["apierr"]
    /\ mem["apierr"] # mem["user"]

C10_RequestOrError ==
    op = "NewRequest" =>
        /\ ~(req # NilRec /\ err # NoError)
        /\ err = NoError =>
              /\ req.Client = "HttpClient"
              /\ req.ApiError = call.apierr
              /\ req.httpreq.Method = GetMethod
              /\ req.httpreq.URL.query =
                     resolveReferenceString(hist.cQuery, call.rawurl).u.query

=============================================================================
